---- MODULE Spec2Model ----
(***************************************************************************)
(* Model of the in-memory user directory:                                  *)
(*   src/examples/python/src/models/user.py            (User)              *)
(*   src/examples/python/src/services/user_service.py  (UserService)       *)
(*                                                                         *)
(* A Python str is a sequence of characters.  An argument that may be None *)
(* is a sequence of length at most one: <<>> is None, <<s>> is the str s.  *)
(* The same encoding is used for Optional[User] results.                   *)
(***************************************************************************)
EXTENDS Integers, Sequences, FiniteSets, TLC

VARIABLES
    users,      \* UserService._users: the list of User objects, in insertion order
    ret,        \* the outcome of the last completed call, as its caller sees it
    prev,       \* history: _users as it was when the last call started
    created,    \* history: the Users create_user returned, as they were at return
    failed,     \* history: some create_user call has raised on a non-empty directory
    writes,     \* history: attribute writes the caller has made on returned Users
    pc,         \* per thread: the place in create_user it is at
    loc,        \* per thread: the locals of its create_user frame
    serialized  \* whether the callers run every call under one lock

vars == <<users, ret, prev, created, failed, writes, pc, loc, serialized>>

(* ------------------------------ bounds -------------------------------- *)

MaxUsers == 2
MaxEmailLen == 2
MaxWrites == 1

Chars == {"a", "@"}
Names == {"", "n"}
Times == {0}
Threads == {1, 2}
Fields == {"id", "email", "name", "created_at"}

(* ------------------------------ values -------------------------------- *)

RECURSIVE StrsOfLen(_)
StrsOfLen(n) ==
    IF n = 0 THEN {<<>>}
    ELSE {Append(s, c) : s \in StrsOfLen(n - 1), c \in Chars}

Strs == UNION {StrsOfLen(n) : n \in 0..MaxEmailLen}

PyNone == <<>>
PyStr(s) == <<s>>

\* the values a caller passes as email: None or a str
EmailArgs == {PyNone} \cup {PyStr(s) : s \in Strs}

\* the values a caller passes as user_id
IdArgs == (-1)..(MaxUsers + 1)

\* Python truthiness of an Optional[str]: None and "" are falsy
Truthy(e) == e # PyNone /\ Len(e[1]) > 0

\* Python's  c in s  for a one-character c
ContainsBug(s, c) == \E i \in 2..Len(s) : s[i] = c
Contains(s, c) == \E i \in 1..Len(s) : s[i] = c

NoError == [type |-> "", msg |-> ""]
ValueError(m) == [type |-> "ValueError", msg |-> m]

(* ------------------------------- User --------------------------------- *)

\* User.__post_init__: the exception it raises, or NoError
PostInitSwapped(email) ==
    IF email = PyNone \/ ~Contains(email[1], "@")
    THEN ValueError("Invalid email format")
    ELSE IF ~Truthy(email) THEN ValueError("Email is required")
    ELSE NoError
PostInitNoFormat(email) ==
    IF ~Truthy(email) THEN ValueError("Email is required") ELSE NoError
PostInit(email) ==
    IF ~Truthy(email) THEN ValueError("Email is required")
    ELSE IF ~Contains(email[1], "@") THEN ValueError("Invalid email format")
    ELSE NoError

\* the dataclass's generated __init__: the four fields, as given
User(id, email, name, created_at) ==
    [id |-> id, email |-> email, name |-> name, created_at |-> created_at]

(* ---------------------------- UserService ----------------------------- *)

\* create_user, line 21
NewUserIdOffByOne(us) == Len(us)
NewUserIdLastIndex(us) == IF Len(us) = 0 THEN 1 ELSE Len(us)
NewUserId(us) == Len(us) + 1

\* create_user, lines 22-28: the list after the call; a raise in User(...)
\* leaves line 28 unexecuted
UsersAfterCreateEager(us, user, err) == Append(us, user)
UsersAfterCreate(us, user, err) ==
    IF err = NoError THEN Append(us, user) ELSE us

\* get_user_by_id: the first user of the list whose id is user_id, or None
RECURSIVE ScanAtLeast(_, _)
ScanAtLeast(us, user_id) ==
    IF us = <<>> THEN <<>>
    ELSE IF Head(us).id >= user_id THEN <<Head(us)>>
    ELSE ScanAtLeast(Tail(us), user_id)
RECURSIVE Scan(_, _)
Scan(us, user_id) ==
    IF us = <<>> THEN <<>>
    ELSE IF Head(us).id = user_id THEN <<Head(us)>>
    ELSE Scan(Tail(us), user_id)

NoCall == [op |-> "none", email |-> PyNone, name |-> "", user_id |-> 0,
           raised |-> NoError, val |-> <<>>]

\* the locals of a create_user frame
NoFrame == [email |-> PyNone, name |-> "", user_id |-> 0, user |-> <<>>]

(* --------------------- one caller, calls in sequence ------------------ *)

Init ==
    /\ users = <<>>
    /\ ret = NoCall
    /\ prev = <<>>
    /\ created = <<>>
    /\ failed = FALSE
    /\ writes = 0
    /\ pc = [t \in Threads |-> "idle"]
    /\ loc = [t \in Threads |-> NoFrame]
    /\ serialized = FALSE

CreateUser(email, name, now) ==
    LET user_id == NewUserId(users)
        err == PostInit(email)
        user == User(user_id, email, name, now)
        after == UsersAfterCreate(users, user, err)
    IN  /\ Len(after) <= MaxUsers
        /\ users' = after
        /\ prev' = users
        /\ ret' = [op |-> "create_user", email |-> email, name |-> name,
                   user_id |-> 0, raised |-> err,
                   val |-> IF err = NoError THEN <<user>> ELSE <<>>]
        /\ created' = IF err = NoError THEN Append(created, user) ELSE created
        /\ failed' = (failed \/ (err # NoError /\ Len(users) > 0))
        /\ UNCHANGED <<writes, pc, loc, serialized>>

GetUserById(user_id) ==
    /\ ret' = [op |-> "get_user_by_id", email |-> PyNone, name |-> "",
               user_id |-> user_id, raised |-> NoError,
               val |-> Scan(users, user_id)]
    /\ prev' = users
    /\ UNCHANGED <<users, created, failed, writes, pc, loc, serialized>>

Next ==
    \/ \E e \in EmailArgs, n \in Names, now \in Times : CreateUser(e, n, now)
    \/ \E i \in IdArgs : GetUserById(i)

Spec == Init /\ [][Next]_vars

(* ------------- one caller that also writes to returned Users ---------- *)

\* the values of the field's type a caller may assign
FieldValues(f) ==
    CASE f = "id" -> 1..(MaxUsers + 1)
      [] f = "email" -> EmailArgs
      [] f = "name" -> Names
      [] f = "created_at" -> Times \cup {1}

\* user.f = v on the User that create_user returned as the i-th: User is a
\* plain (not frozen) dataclass and _users holds that same object
CallerSetField(i, f, v) ==
    /\ writes < MaxWrites
    /\ i \in 1..Len(users)
    /\ users' = [users EXCEPT ![i] = [@ EXCEPT ![f] = v]]
    /\ prev' = users
    /\ ret' = [NoCall EXCEPT !.op = "setattr"]
    /\ writes' = writes + 1
    /\ UNCHANGED <<created, failed, pc, loc, serialized>>

NextCaller ==
    \/ \E e \in EmailArgs, n \in Names, now \in Times : CreateUser(e, n, now)
    \/ \E i \in IdArgs : GetUserById(i)
    \/ \E i \in 1..MaxUsers, f \in Fields : \E v \in FieldValues(f) :
          CallerSetField(i, f, v)

SpecCaller == Init /\ [][NextCaller]_vars

(* ---------------- threads calling create_user on one directory -------- *)

RaceEmails == {PyStr(<<>>), PyStr(<<"@">>)}

InitThreads ==
    /\ users = <<>>
    /\ ret = NoCall
    /\ prev = <<>>
    /\ created = <<>>
    /\ failed = FALSE
    /\ writes = 0
    /\ pc = [t \in Threads |-> "idle"]
    /\ loc = [t \in Threads |-> NoFrame]
    /\ serialized \in BOOLEAN

InFlight == {t \in Threads : pc[t] # "idle"}

\* under the lock a call starts only when no other call is in progress
LockFree(t) == serialized => InFlight \subseteq {t}

\* thread t enters create_user(email, name)
TCall(t, email, name) ==
    /\ pc[t] = "idle"
    /\ LockFree(t)
    /\ Len(users) + Cardinality(InFlight) < MaxUsers
    /\ pc' = [pc EXCEPT ![t] = "line21"]
    /\ loc' = [loc EXCEPT ![t] = [NoFrame EXCEPT !.email = email, !.name = name]]
    /\ UNCHANGED <<users, ret, prev, created, failed, writes, serialized>>

\* user_id = len(self._users) + 1
TLine21(t) ==
    /\ pc[t] = "line21"
    /\ pc' = [pc EXCEPT ![t] = "line22"]
    /\ loc' = [loc EXCEPT ![t].user_id = NewUserId(users)]
    /\ UNCHANGED <<users, ret, prev, created, failed, writes, serialized>>

\* user = User(...): a raise ends the call, the list untouched
TLine22(t, now) ==
    /\ pc[t] = "line22"
    /\ LET err == PostInit(loc[t].email)
           user == User(loc[t].user_id, loc[t].email, loc[t].name, now)
       IN  IF err = NoError
           THEN /\ pc' = [pc EXCEPT ![t] = "line28"]
                /\ loc' = [loc EXCEPT ![t].user = <<user>>]
           ELSE /\ pc' = [pc EXCEPT ![t] = "idle"]
                /\ loc' = loc
    /\ UNCHANGED <<users, ret, prev, created, failed, writes, serialized>>

\* self._users.append(user); return user
TLine28(t) ==
    /\ pc[t] = "line28"
    /\ users' = Append(users, loc[t].user[1])
    /\ pc' = [pc EXCEPT ![t] = "idle"]
    /\ UNCHANGED <<ret, prev, created, failed, writes, loc, serialized>>

NextThreads ==
    \/ \E t \in Threads, e \in RaceEmails, n \in Names : TCall(t, e, n)
    \/ \E t \in Threads : TLine21(t)
    \/ \E t \in Threads, now \in Times : TLine22(t, now)
    \/ \E t \in Threads : TLine28(t)

SpecThreads == InitThreads /\ [][NextThreads]_vars

(* ------------------------------ properties ---------------------------- *)

\* "@" occurs in s, stated on the set of its characters
HasAt(s) == "@" \in {s[i] : i \in 1..Len(s)}

ValidEmail(e) == e # PyNone /\ e[1] # <<>> /\ HasAt(e[1])

DistinctIds(us) ==
    \A i, j \in 1..Len(us) : i # j => us[i].id # us[j].id

IsCreate == ret.op = "create_user"
IsGet == ret.op = "get_user_by_id"
Raised == ret.raised # NoError

\* C1: the k-th successful create_user returns the User with id k, whatever
\* failed create_user calls and lookups came in between.
C1_KthCreatedHasIdK ==
    \A k \in 1..Len(created) : created[k].id = k

C1_Witness ==
    /\ failed
    /\ IsCreate /\ ~Raised
    /\ Len(created) = MaxUsers
    /\ ret.val = <<created[MaxUsers]>>

\* C2: a create_user call that raises leaves the stored sequence exactly as
\* it was before the call, and returns nothing.
C2_FailedCreateLeavesUsers ==
    (IsCreate /\ Raised) => (users = prev /\ ret.val = <<>>)

C2_Witness ==
    /\ IsCreate
    /\ ret.raised = ValueError("Invalid email format")
    /\ Len(users) >= 1

\* C3: get_user_by_id(i) returns the record create_user returned with id i,
\* and None, without raising, for an id create_user never returned.
C3_GetReturnsCreated ==
    IsGet =>
        /\ ~Raised
        /\ \A k \in 1..Len(created) :
              created[k].id = ret.user_id => ret.val = <<created[k]>>
        /\ (\A k \in 1..Len(created) : created[k].id # ret.user_id)
              => ret.val = <<>>

C3_Witness ==
    /\ IsGet
    /\ Len(created) >= 2
    /\ ret.user_id = 1
    /\ ret.val = <<created[1]>>

\* C4: the ids of the stored records are pairwise distinct and each stored
\* record keeps the id it was created with.
C4_IdsUniqueAndStable ==
    /\ DistinctIds(users)
    /\ \A i \in 1..Len(users) : users[i].id = created[i].id

\* C5: create_user with a non-empty email containing "@" does not raise,
\* appends exactly the returned User to the end of the stored sequence, and
\* the returned User carries the given email and name.
C5_ValidCreateSucceeds ==
    (IsCreate /\ ValidEmail(ret.email)) =>
        /\ ~Raised
        /\ Len(ret.val) = 1
        /\ users = Append(prev, ret.val[1])
        /\ ret.val[1].email = ret.email
        /\ ret.val[1].name = ret.name

C5_Witness ==
    /\ IsCreate /\ ~Raised
    /\ ret.name = ""
    /\ Len(prev) >= 1
    /\ ret.email[1][1] = "@"

\* C6: create_user with an empty or None email raises ValueError("Email is
\* required"), never the format error, and the caller gets that error as
\* raised.
C6_EmptyEmailIsRequired ==
    (IsCreate /\ (ret.email = PyNone \/ ret.email = PyStr(<<>>))) =>
        (ret.raised = ValueError("Email is required") /\ ret.val = <<>>)

C6_Witness ==
    /\ IsCreate
    /\ ret.email = PyStr(<<>>)
    /\ ret.raised = ValueError("Email is required")

\* C7: create_user with a non-empty email without "@" raises
\* ValueError("Invalid email format"), never the missing-email error.
C7_NoAtIsInvalidFormat ==
    (IsCreate /\ ret.email # PyNone /\ ret.email # PyStr(<<>>)
              /\ ~HasAt(ret.email[1])) =>
        (ret.raised = ValueError("Invalid email format") /\ ret.val = <<>>)

C7_Witness ==
    /\ IsCreate
    /\ ret.email = PyStr(<<"a">>)
    /\ ret.name = "n"
    /\ ret.raised = ValueError("Invalid email format")

\* C8: no caller action on a returned User changes what the directory
\* stores: every stored record equals the record create_user returned.
C8_StoredRecordsAsReturned ==
    /\ Len(users) = Len(created)
    /\ \A i \in 1..Len(users) : users[i] = created[i]

\* C9: every stored record has a non-empty email containing "@".
C9_StoredEmailsValid ==
    \A i \in 1..Len(users) : ValidEmail(users[i].email)

C9_Witness ==
    /\ failed
    /\ Len(users) = MaxUsers
    /\ IsGet

\* C10: with every call under one lock the stored ids are pairwise distinct;
\* duplicate ids arise only from unserialized calls.
C10_SerializedIdsDistinct ==
    serialized => DistinctIds(users)

\* two unserialized calls read the same count and both appended
C10_Witness ==
    /\ ~serialized
    /\ Len(users) = 2
    /\ users[1].id = users[2].id
    /\ loc[1].user_id = loc[2].user_id
    /\ InFlight = {}

====
